---- MODULE Spec2Model ----
(***************************************************************************)
(* InnerProductLayer of src/caffe/layers/inner_product_layer.cpp as a      *)
(* state machine: SetUp, Forward_cpu, Backward_cpu and the two             *)
(* normalize_weights overloads acting on the layer's members (blobs_, M_,  *)
(* K_, N_, bias_term_, bias_multiplier_) and on the caller's bottom and    *)
(* top blobs.                                                              *)
(*                                                                         *)
(* Dtype values are exact rationals [n |-> numerator, d |-> denominator]   *)
(* in lowest terms with d > 0: the arithmetic of the layer is followed     *)
(* without floating-point rounding.  Buffers are flat row-major sequences, *)
(* as in Blob: element (h, w) of a blob lies at offset h * width + w.      *)
(***************************************************************************)
EXTENDS Integers, Sequences, FiniteSets, TLC

\* ------------------------------------------------------------------ bounds
\* largest batch size of a bottom blob handed to SetUp
MaxM == 2
\* largest number of input features per example of a bottom blob
MaxK == 2
\* largest num_output of the layer parameter
MaxN == 2
\* seeds 0..MaxSeed of the data the fillers and the callers provide
MaxSeed == 2

\* Dtype(1e-7) of normalize_weights, as the rational 1 / EpsDen
EpsDen == 10000000

\* ---------------------------------------------------------------- rationals
Abs(x) == IF x < 0 THEN -x ELSE x

RECURSIVE GCD(_, _)
GCD(a, b) == IF b = 0 THEN a ELSE GCD(b, a % b)

\* the rational n / d (d # 0) in lowest terms with a positive denominator
Rat(n, d) ==
    IF d = 1 THEN [n |-> n, d |-> 1]
    ELSE LET g == GCD(Abs(n), Abs(d))
             s == IF d < 0 THEN -1 ELSE 1
         IN  [n |-> (s * n) \div g, d |-> (s * d) \div g]

Int2Rat(i) == [n |-> i, d |-> 1]

Zero == Int2Rat(0)
One == Int2Rat(1)

RAdd(a, b) ==
    IF a.d = 1 /\ b.d = 1 THEN [n |-> a.n + b.n, d |-> 1]
    ELSE LET g == GCD(a.d, b.d)
         IN  Rat(a.n * (b.d \div g) + b.n * (a.d \div g), (a.d \div g) * b.d)

\* factors are cancelled crosswise before multiplying
RMul(a, b) ==
    IF a.d = 1 /\ b.d = 1 THEN [n |-> a.n * b.n, d |-> 1]
    ELSE
    LET g1 == GCD(Abs(a.n), b.d)
        g2 == GCD(Abs(b.n), a.d)
        h1 == IF g1 = 0 THEN 1 ELSE g1
        h2 == IF g2 = 0 THEN 1 ELSE g2
    IN  Rat((a.n \div h1) * (b.n \div h2), (a.d \div h2) * (b.d \div h1))

\* a / b for b # 0
RDiv(a, b) == RMul(a, Rat(b.d, b.n))

\* a <= b for non-negative a and b, by comparing the continued fractions, so
\* that no product of two large numbers is formed
RECURSIVE FracLeq(_, _, _, _)
FracLeq(p, q, r, s) ==
    LET fa == p \div q
        fb == r \div s
        ra == p % q
        rb == r % s
    IN  IF fa # fb THEN fa < fb
        ELSE IF ra = 0 THEN TRUE
        ELSE IF rb = 0 THEN FALSE
        ELSE FracLeq(s, rb, q, ra)

RLeq(a, b) ==
    IF a.n < 0 /\ b.n >= 0 THEN TRUE
    ELSE IF a.n >= 0 /\ b.n < 0 THEN FALSE
    ELSE IF a.n >= 0 THEN FracLeq(a.n, a.d, b.n, b.d)
    ELSE FracLeq(-b.n, b.d, -a.n, a.d)

RLess(a, b) == ~RLeq(b, a)

\* --------------------------------------------------------------- buffers
Zeros(count) == [i \in 1..count |-> Zero]

Ones(count) == [i \in 1..count |-> One]

\* element i (from 0) of a buffer; a read outside the buffer yields g
At(buf, i, g) == IF i >= 0 /\ i < Len(buf) THEN buf[i + 1] ELSE g

\* ------------------------------------------------- linear algebra provider
\* element (m, k) of op(A), A being M x K after the transposition TransA
\* (caffe_cpu_gemm passes lda = K for CblasNoTrans and lda = M for CblasTrans)
GemmA(TransA, M, K, A, m, k, g) ==
    IF TransA THEN At(A, k * M + m, g) ELSE At(A, m * K + k, g)

\* element (k, n) of op(B), B being K x N after the transposition TransB
\* (ldb = N for CblasNoTrans and ldb = K for CblasTrans)
GemmB(TransB, N, K, B, k, n, g) ==
    IF TransB THEN At(B, n * K + k, g) ELSE At(B, k * N + n, g)

\* sum over k' < k of op(A)(m, k') * op(B)(k', n)
RECURSIVE GemmDot(_, _, _, _, _, _, _, _, _, _, _)
GemmDot(TransA, TransB, M, N, K, A, B, m, n, k, g) ==
    IF k = 0 THEN Zero
    ELSE RAdd(GemmDot(TransA, TransB, M, N, K, A, B, m, n, k - 1, g),
              RMul(GemmA(TransA, M, K, A, m, k - 1, g),
                   GemmB(TransB, N, K, B, k - 1, n, g)))

\* C := alpha * op(A) * op(B) + beta * C over the M x N row-major C; with
\* beta = 0 the old C is not read.  Reads outside A or B yield g; the
\* elements of the buffer C that lie outside M x N are left alone.
caffe_cpu_gemm(TransA, TransB, M, N, K, alpha, A, B, beta, C, g) ==
    [j \in 1..Len(C) |->
        LET m == (j - 1) \div N
            n == (j - 1) % N
        IN  IF m < M
            THEN RAdd(RMul(alpha, GemmDot(TransA, TransB, M, N, K, A, B, m, n, K, g)),
                      IF beta = Zero THEN Zero ELSE RMul(beta, C[j]))
            ELSE C[j]]

\* whether the gemm call above reads outside A or B, or writes outside C
GemmOutOfBounds(M, N, K, A, B, C) ==
    \/ M * K > Len(A)
    \/ K * N > Len(B)
    \/ M * N > Len(C)

\* sum over m' < m of A(m', n) * x(m'), A being M x N row-major
RECURSIVE GemvDotT(_, _, _, _, _, _)
GemvDotT(N, A, x, n, m, g) ==
    IF m = 0 THEN Zero
    ELSE RAdd(GemvDotT(N, A, x, n, m - 1, g),
              RMul(At(A, (m - 1) * N + n, g), At(x, m - 1, g)))

\* caffe_cpu_gemv(CblasTrans, M, N, alpha, A, x, beta, y):
\* y := alpha * A^T * x + beta * y, y of length N
caffe_cpu_gemv_T(M, N, alpha, A, x, beta, y, g) ==
    [j \in 1..Len(y) |->
        IF j - 1 < N
        THEN RAdd(RMul(alpha, GemvDotT(N, A, x, j - 1, M, g)),
                  IF beta = Zero THEN Zero ELSE RMul(beta, y[j]))
        ELSE y[j]]

GemvOutOfBounds(M, N, A, x, y) ==
    \/ M * N > Len(A)
    \/ M > Len(x)
    \/ N > Len(y)

\* the largest r with r * r <= s
ISqrt(s) == CHOOSE r \in 0..s : r * r <= s /\ (r + 1) * (r + 1) > s

\* the n strided elements x[start], x[start + incx], ... as a sequence
Strided(n, x, start, incx) == [j \in 1..n |-> x[start + (j - 1) * incx + 1]]

RECURSIVE LcmDen(_, _)
LcmDen(v, j) ==
    IF j = 0 THEN 1
    ELSE LET l == LcmDen(v, j - 1) IN (l \div GCD(l, v[j].d)) * v[j].d

RECURSIVE GcdNum(_, _, _)
GcdNum(v, L, j) ==
    IF j = 0 THEN 0
    ELSE GCD(GcdNum(v, L, j - 1), Abs(v[j].n) * (L \div v[j].d))

RECURSIVE SumSq(_, _, _, _)
SumSq(v, L, c, j) ==
    IF j = 0 THEN 0
    ELSE LET a == (v[j].n * (L \div v[j].d)) \div c
         IN  SumSq(v, L, c, j - 1) + a * a

\* the Euclidean norm of a sequence of rationals: with L the common
\* denominator and c the common factor of the numerators over L, the norm is
\* c * sqrt(sum of ((numerator over L) / c)^2) / L
VecNorm(v) ==
    LET L == LcmDen(v, Len(v))
        c == GcdNum(v, L, Len(v))
    IN  IF c = 0 THEN Zero ELSE Rat(c * ISqrt(SumSq(v, L, c, Len(v))), L)

\* whether VecNorm(v) is exact (the sum of squares is a perfect square)
NormIsExact(v) ==
    LET L == LcmDen(v, Len(v))
        c == GcdNum(v, L, Len(v))
        s == IF c = 0 THEN 0 ELSE SumSq(v, L, c, Len(v))
    IN  ISqrt(s) * ISqrt(s) = s

\* caffe_cpu_norm2(n, x + start, incx)
caffe_cpu_norm2(n, x, start, incx) == VecNorm(Strided(n, x, start, incx))

\* caffe_scal(n, alpha, x + start, incx)
caffe_scal(n, alpha, x, start, incx) ==
    [j \in 1..Len(x) |->
        IF /\ j - 1 >= start
           /\ (j - 1 - start) % incx = 0
           /\ (j - 1 - start) \div incx < n
        THEN RMul(alpha, x[j])
        ELSE x[j]]

\* ------------------------------------------------------------ data provided
\* columns a filler or a parameter file may put into a blob: every one has
\* an integral Euclidean norm at every height (rows past the second are 0)
ColumnTable == << <<0, 0>>, <<3, -4>>, <<-4, 0>>, <<0, 3>>, <<-4, 3>> >>

\* Filler::Fill on a blob of height x width: the values of seed
Fill(seed, height, width) ==
    [j \in 1..(height * width) |->
        LET h == (j - 1) \div width
            w == (j - 1) % width
        IN  IF h < 2
            THEN Int2Rat(ColumnTable[((seed + 2 * w) % Len(ColumnTable)) + 1][h + 1])
            ELSE Zero]

\* the values a caller puts into a bottom data or a top diff buffer
SampleData(seed, count) ==
    [i \in 1..count |-> Int2Rat((((seed + 1) * i + seed * seed) % 5) - 2)]

Seeds == 0..MaxSeed

\* ------------------------------------------------------------------- blobs
\* Blob<Dtype>(1, 1, height, width): data and diff are zero until written
NewBlob(id, height, width) ==
    [id |-> id, height |-> height, width |-> width,
     data |-> Zeros(height * width), diff |-> Zeros(height * width)]

\* blobs_[i] (from 0); past the end of the vector there is no blob, and
\* what is read there has no elements
NoBlob == [id |-> 0, height |-> 0, width |-> 0, data |-> << >>, diff |-> << >>]

BlobAt(blobs, i) == IF i < Len(blobs) THEN blobs[i + 1] ELSE NoBlob

\* ------------------------------------------------------------------- state
VARIABLES
    layer_param_,      \* inner_product_param: [num_output, bias_term]
    blobs_,            \* the parameter blobs, blobs_[0] at index 1
    M_, K_, N_,        \* the dimensions SetUp figured out
    bias_term_,
    bias_multiplier_,  \* the buffer of the SyncedMemory, << >> while not set
    bottom,            \* bottom[0]: [num, dim, data, diff]
    top,               \* (*top)[0]: [num, dim, data, diff]
    call,              \* the call that ended last: its arguments, its result,
                       \* M_ as the call found it (old_M), and whether the
                       \* buffer it wrote held other, non-zero values (stale)
    log,               \* the line the last call wrote with LOG(INFO), or ""
    fills,             \* how many times Filler::Fill has run
    next_id,           \* the identity the next allocated Blob gets
    oob,               \* the last call read or wrote outside a buffer
    walked             \* the groups of weight offsets the last normalize_weights
                       \* call took the norm of, in the order of its loop

vars == <<layer_param_, blobs_, M_, K_, N_, bias_term_, bias_multiplier_,
          bottom, top, call, log, fills, next_id, oob, walked>>

\* the result of a call that returns nothing
Void == [n |-> 0, d |-> 0]

Call(op) ==
    [op |-> op, bottom_seed |-> 0, top_seed |-> 0, propagate_down |-> FALSE,
     mnorm |-> 0, min_norm |-> 0, max_norm |-> 0, target_norm |-> 0, ret |-> Void,
     old_M |-> 0, stale |-> FALSE]

\* what a read outside a buffer may find
Garbage == {Zero, One}

\* a parameter store put into the layer before SetUp (parameters loaded from
\* a file or shared with another layer): a weight blob of height x width,
\* and with count = 2 a second blob of 1 x height
LoadedStore(height, width, seed, count) ==
    LET W == [NewBlob(1, height, width) EXCEPT !.data = Fill(seed, height, width)]
        B == [NewBlob(2, 1, height) EXCEPT !.data = Fill(seed + 1, 1, height)]
    IN  IF count = 1 THEN <<W>> ELSE <<W, B>>

LoadedStores ==
    {LoadedStore(h, w, (h + w) % (MaxSeed + 1), c) :
        h \in 1..MaxN, w \in 1..MaxK, c \in 1..2}

NoData == [num |-> 0, dim |-> 0, data |-> << >>, diff |-> << >>]

Init ==
    /\ layer_param_ \in [num_output : 1..MaxN, bias_term : BOOLEAN]
    /\ blobs_ \in {<< >>} \cup LoadedStores
    /\ M_ = 0
    /\ K_ = 0
    /\ N_ = 0
    /\ bias_term_ = FALSE
    /\ bias_multiplier_ = << >>
    /\ bottom = NoData
    /\ top = NoData
    /\ call = Call("init")
    /\ log = ""
    /\ fills = 0
    /\ next_id = 3
    /\ oob = FALSE
    /\ walked = << >>

\* ------------------------------------------------------------------- SetUp
\* the parameter blobs SetUp allocates and fills when blobs_ is empty
InitializedBlobs(id, bias, N, K, wseed, bseed) ==
    LET W == [NewBlob(id, N, K) EXCEPT !.data = Fill(wseed, N, K)]
        B == [NewBlob(id + 1, 1, N) EXCEPT !.data = Fill(bseed, 1, N)]
    IN  IF bias THEN <<W, B>> ELSE <<W>>

\* SetUp with the check of blobs_.size() lost: the parameters are always
\* allocated and filled anew
SkipsInitialization_never(blobs) == FALSE

\* whether SetUp leaves blobs_ as it finds it
SkipsInitialization(blobs) == Len(blobs) > 0

\* SetUp with the bias multiplier set up only while there is none yet
SetUpBiasMultiplier_once(bias, num, old) ==
    IF bias /\ Len(old) = 0 THEN Ones(num) ELSE old

\* the bias multiplier SetUp leaves: M_ ones when there is a bias term
SetUpBiasMultiplier(bias, num, old) == IF bias THEN Ones(num) ELSE old

\* SetUp on a bottom blob of num x dim x 1 x 1; wseed and bseed are what
\* the two fillers produce
SetUp(num, dim, wseed, bseed) ==
    LET num_output == layer_param_.num_output
        bias == layer_param_.bias_term
    IN  /\ bias_term_' = bias
        /\ M_' = num
        /\ K_' = dim
        /\ N_' = num_output
        /\ bottom' = [num |-> num, dim |-> dim,
                      data |-> Zeros(num * dim), diff |-> Zeros(num * dim)]
        /\ top' = [num |-> num, dim |-> num_output,
                   data |-> Zeros(num * num_output),
                   diff |-> Zeros(num * num_output)]
        /\ IF SkipsInitialization(blobs_)
           THEN /\ log' = "Skipping parameter initialization"
                /\ UNCHANGED <<blobs_, fills, next_id>>
           ELSE /\ log' = ""
                /\ blobs_' = InitializedBlobs(next_id, bias, num_output, dim, wseed, bseed)
                /\ fills' = fills + (IF bias THEN 2 ELSE 1)
                /\ next_id' = next_id + (IF bias THEN 2 ELSE 1)
        /\ bias_multiplier_' = SetUpBiasMultiplier(bias, num, bias_multiplier_)
        /\ call' = [Call("SetUp") EXCEPT !.old_M = M_]
        /\ oob' = FALSE
        /\ UNCHANGED <<layer_param_, walked>>

\* ------------------------------------------------------------- Forward_cpu
\* the first gemm of Forward_cpu with beta = 1: the product is added to
\* what the top data held
ForwardProduct_accumulate(bottom_data, weight, top_data, g) ==
    caffe_cpu_gemm(FALSE, TRUE, M_, N_, K_, One, bottom_data, weight, One,
                   top_data, g)

\* the top data after the first gemm of Forward_cpu
ForwardProduct(bottom_data, weight, top_data, g) ==
    caffe_cpu_gemm(FALSE, TRUE, M_, N_, K_, One, bottom_data, weight, Zero,
                   top_data, g)

\* the top data after the bias gemm
ForwardBias(bias, top_data, g) ==
    caffe_cpu_gemm(FALSE, FALSE, M_, N_, 1, One, bias_multiplier_, bias, One,
                   top_data, g)

ForwardTop(bottom_data, top_data, g) ==
    LET product == ForwardProduct(bottom_data, BlobAt(blobs_, 0).data, top_data, g)
    IN  IF bias_term_
        THEN ForwardBias(BlobAt(blobs_, 1).data, product, g)
        ELSE product

ForwardOutOfBounds(bottom_data) ==
    \/ GemmOutOfBounds(M_, N_, K_, bottom_data, BlobAt(blobs_, 0).data, top.data)
    \/ /\ bias_term_
       /\ GemmOutOfBounds(M_, N_, 1, bias_multiplier_, BlobAt(blobs_, 1).data, top.data)

\* Forward_cpu on the bottom blob of SetUp, the caller having written the
\* data of seed into it
Forward_cpu(seed) ==
    /\ call.op # "init"
    /\ LET bottom_data == SampleData(seed, bottom.num * bottom.dim)
       IN  /\ \E g \in (IF ForwardOutOfBounds(bottom_data) THEN Garbage ELSE {Zero}) :
                 top' = [top EXCEPT !.data = ForwardTop(bottom_data, top.data, g)]
           /\ bottom' = [bottom EXCEPT !.data = bottom_data]
           /\ oob' = ForwardOutOfBounds(bottom_data)
    /\ call' = [Call("Forward_cpu") EXCEPT
                  !.bottom_seed = seed,
                  !.ret = Zero,
                  !.old_M = M_,
                  !.stale = /\ top.data # Zeros(Len(top.data))
                            /\ top.data # top'.data]
    /\ log' = ""
    /\ UNCHANGED <<layer_param_, blobs_, M_, K_, N_, bias_term_, bias_multiplier_,
                   fills, next_id, walked>>

\* ------------------------------------------------------------ Backward_cpu
\* gradient with respect to the weight, written over the diff of blobs_[0]
BackwardWeightDiff(top_diff, bottom_data, weight_diff, g) ==
    caffe_cpu_gemm(TRUE, FALSE, N_, K_, M_, One, top_diff, bottom_data, Zero,
                   weight_diff, g)

\* gradient with respect to the bias, written over the diff of blobs_[1]
BackwardBiasDiff(top_diff, bias_diff, g) ==
    caffe_cpu_gemv_T(M_, N_, One, top_diff, bias_multiplier_, Zero, bias_diff, g)

\* gradient with respect to the bottom data
BackwardBottomDiff(top_diff, weight, bottom_diff, g) ==
    caffe_cpu_gemm(FALSE, FALSE, M_, K_, N_, One, top_diff, weight, Zero,
                   bottom_diff, g)

\* whether Backward_cpu writes past the end of a parameter's diff buffer
BackwardWritesOutOfBounds ==
    \/ N_ * K_ > Len(BlobAt(blobs_, 0).diff)
    \/ bias_term_ /\ N_ > Len(BlobAt(blobs_, 1).diff)

BackwardOutOfBounds(top_diff, bottom_data, propagate_down) ==
    \/ GemmOutOfBounds(N_, K_, M_, top_diff, bottom_data, BlobAt(blobs_, 0).diff)
    \/ /\ bias_term_
       /\ GemvOutOfBounds(M_, N_, top_diff, bias_multiplier_, BlobAt(blobs_, 1).diff)
    \/ /\ propagate_down
       /\ GemmOutOfBounds(M_, K_, N_, top_diff, BlobAt(blobs_, 0).data, bottom.diff)

\* what a write past the end of a diff buffer may hit: memory the layer
\* does not look at again, or the start of the weight data
Victims == {"none", "weight"}

\* blobs_ after Backward_cpu
BackwardBlobs(top_diff, bottom_data, g, victim) ==
    [i \in 1..Len(blobs_) |->
        IF i = 1
        THEN [blobs_[1] EXCEPT
                !.diff = BackwardWeightDiff(top_diff, bottom_data, blobs_[1].diff, g),
                !.data = IF victim = "weight" /\ Len(blobs_[1].data) > 0
                         THEN [blobs_[1].data EXCEPT ![1] = g]
                         ELSE blobs_[1].data]
        ELSE IF i = 2 /\ bias_term_
        THEN [blobs_[2] EXCEPT !.diff = BackwardBiasDiff(top_diff, blobs_[2].diff, g)]
        ELSE blobs_[i]]

\* Backward_cpu on the blobs of SetUp, the callers having written the data
\* of bottom_seed into the bottom blob and the diff of top_seed into the top
\* blob
Backward_cpu(bottom_seed, top_seed, propagate_down) ==
    /\ call.op # "init"
    /\ LET top_diff == SampleData(top_seed, top.num * top.dim)
           bottom_data == SampleData(bottom_seed, bottom.num * bottom.dim)
           out == BackwardOutOfBounds(top_diff, bottom_data, propagate_down)
       IN  /\ \E g \in (IF out THEN Garbage ELSE {Zero}),
                 victim \in (IF BackwardWritesOutOfBounds THEN Victims ELSE {"none"}) :
                 /\ blobs_' = BackwardBlobs(top_diff, bottom_data, g, victim)
                 /\ bottom' =
                        [bottom EXCEPT
                           !.data = bottom_data,
                           !.diff = IF propagate_down
                                    THEN BackwardBottomDiff(top_diff,
                                             BlobAt(blobs_, 0).data, bottom.diff, g)
                                    ELSE bottom.diff]
           /\ top' = [top EXCEPT !.diff = top_diff]
           /\ oob' = out
    /\ call' = [Call("Backward_cpu") EXCEPT !.bottom_seed = bottom_seed,
                                            !.top_seed = top_seed,
                                            !.propagate_down = propagate_down]
    /\ log' = ""
    /\ UNCHANGED <<layer_param_, M_, K_, N_, bias_term_, bias_multiplier_,
                   fills, next_id, walked>>

\* ------------------------------------------------------- normalize_weights
Eps == Rat(1, EpsDen)

\* Blob::offset(0, 0, 0, 1) of a blob of height x width
BlobOffset01(blob) == 1

\* what normalize_weights reads off blobs_[0] before its loop: M elements per
\* group, N groups, stride N between the elements of a group and off between
\* the starts of two groups
WalkM(blob) == blob.height

WalkN(blob) == blob.width

\* the offsets of the elements of group i: caffe_cpu_norm2(M, weight, N) with
\* weight advanced i times by off
WalkGroup(blob, i) ==
    {i * BlobOffset01(blob) + j * WalkN(blob) : j \in 0..(WalkM(blob) - 1)}

WalkedGroups(blob) == [i \in 1..WalkN(blob) |-> WalkGroup(blob, i - 1)]

\* the comparison of normalize_weights(mnorm) as nrm >= mnorm
ExceedsMax_inclusive(nrm, mnorm) == RLeq(mnorm, nrm)

\* nrm > mnorm: normalize_weights(mnorm) rescales the group
ExceedsMax(nrm, mnorm) == RLess(mnorm, nrm)

\* mnorm / (nrm + Dtype(1e-7))
ScaleMax(nrm, mnorm) == RDiv(mnorm, RAdd(nrm, Eps))

\* the comparisons of the three-argument overload as >= and <=
OutOfBand_inclusive(nrm, min_norm, max_norm) ==
    RLeq(max_norm, nrm) \/ RLeq(nrm, min_norm)

\* nrm > max_norm || nrm < min_norm: the three-argument overload rescales
OutOfBand(nrm, min_norm, max_norm) == RLess(max_norm, nrm) \/ RLess(nrm, min_norm)

\* target_norm / (nrm + Dtype(1e-7))
ScaleBand(nrm, target_norm) == RDiv(target_norm, RAdd(nrm, Eps))

\* the loop of normalize_weights(mnorm) from group i on
RECURSIVE NormalizeMaxLoop(_, _, _, _)
NormalizeMaxLoop(blob, weight, i, mnorm) ==
    IF i >= WalkN(blob) THEN weight
    ELSE LET pos == i * BlobOffset01(blob)
             nrm == caffe_cpu_norm2(WalkM(blob), weight, pos, WalkN(blob))
             scaled == IF ExceedsMax(nrm, mnorm)
                       THEN caffe_scal(WalkM(blob), ScaleMax(nrm, mnorm), weight,
                                       pos, WalkN(blob))
                       ELSE weight
         IN  NormalizeMaxLoop(blob, scaled, i + 1, mnorm)

\* the loop of normalize_weights(min_norm, max_norm, target_norm)
RECURSIVE NormalizeBandLoop(_, _, _, _, _, _)
NormalizeBandLoop(blob, weight, i, min_norm, max_norm, target_norm) ==
    IF i >= WalkN(blob) THEN weight
    ELSE LET pos == i * BlobOffset01(blob)
             nrm == caffe_cpu_norm2(WalkM(blob), weight, pos, WalkN(blob))
             scaled == IF OutOfBand(nrm, min_norm, max_norm)
                       THEN caffe_scal(WalkM(blob), ScaleBand(nrm, target_norm),
                                       weight, pos, WalkN(blob))
                       ELSE weight
         IN  NormalizeBandLoop(blob, scaled, i + 1, min_norm, max_norm, target_norm)

\* every weight is an integer: the products of one rescaling then stay
\* within the integers the model computes with
Integral(buf) == \A j \in 1..Len(buf) : buf[j].d = 1

\* normalize_weights(Dtype mnorm); the CPU and the GPU branch run the same
\* loop on the same values
normalize_weights_max(mnorm) ==
    /\ call.op # "init"
    /\ Integral(blobs_[1].data)
    /\ blobs_' = [blobs_ EXCEPT
                    ![1].data = NormalizeMaxLoop(blobs_[1], blobs_[1].data, 0,
                                                 Int2Rat(mnorm))]
    /\ walked' = WalkedGroups(blobs_[1])
    /\ call' = [Call("normalize_weights_max") EXCEPT !.mnorm = mnorm]
    /\ log' = ""
    /\ oob' = FALSE
    /\ UNCHANGED <<layer_param_, M_, K_, N_, bias_term_, bias_multiplier_,
                   bottom, top, fills, next_id>>

\* normalize_weights(Dtype min_norm, Dtype max_norm, Dtype target_norm)
normalize_weights_band(min_norm, max_norm, target_norm) ==
    /\ call.op # "init"
    /\ Integral(blobs_[1].data)
    /\ blobs_' = [blobs_ EXCEPT
                    ![1].data = NormalizeBandLoop(blobs_[1], blobs_[1].data, 0,
                                                  Int2Rat(min_norm), Int2Rat(max_norm),
                                                  Int2Rat(target_norm))]
    /\ walked' = WalkedGroups(blobs_[1])
    /\ call' = [Call("normalize_weights_band") EXCEPT !.min_norm = min_norm,
                                                      !.max_norm = max_norm,
                                                      !.target_norm = target_norm]
    /\ log' = ""
    /\ oob' = FALSE
    /\ UNCHANGED <<layer_param_, M_, K_, N_, bias_term_, bias_multiplier_,
                   bottom, top, fills, next_id>>

\* the arguments the callers of normalize_weights pass
MaxNorms == {-1, 0, 4, 6}

\* <<min_norm, max_norm, target_norm>>
Bands == {<<4, 4, 4>>, <<0, 4, 5>>, <<3, 4, 0>>, <<5, 6, 6>>}

\* ----------------------------------------------------------- specification
\* the outcomes of the fillers when they run; fillers that do not run
\* produce nothing
FillerSeeds == IF Len(blobs_) = 0 THEN Seeds ELSE {0}

SetUpStep ==
    \E num \in 1..MaxM, dim \in 1..MaxK, seed \in FillerSeeds :
       SetUp(num, dim, seed, (seed + 1) % (MaxSeed + 1))

ForwardStep == \E seed \in Seeds : Forward_cpu(seed)

BackwardStep ==
    \E seed \in Seeds, propagate_down \in BOOLEAN :
       Backward_cpu(seed, (seed + 1) % (MaxSeed + 1), propagate_down)

\* the layer set up and run forward
NextForward == SetUpStep \/ ForwardStep

SpecForward == Init /\ [][NextForward]_vars

\* the layer set up and run backward
NextBackward == SetUpStep \/ BackwardStep

SpecBackward == Init /\ [][NextBackward]_vars

NormalizeStep ==
    \/ \E mnorm \in MaxNorms : normalize_weights_max(mnorm)
    \/ \E band \in Bands : normalize_weights_band(band[1], band[2], band[3])

\* SetUp on the bottom blobs of one example: the batch size plays no part
\* in normalize_weights
SetUpOneStep ==
    \E dim \in 1..MaxK, seed \in FillerSeeds :
       SetUp(1, dim, seed, (seed + 1) % (MaxSeed + 1))

\* the layer set up and its weights normalized
NextNormalize == SetUpOneStep \/ NormalizeStep

SpecNormalize == Init /\ [][NextNormalize]_vars

\* every operation of the layer
Next == SetUpStep \/ ForwardStep \/ BackwardStep \/ NormalizeStep

Spec == Init /\ [][Next]_vars

\* ------------------------------------------------------------ properties
\* the sum of f[0], ..., f[k - 1]
RECURSIVE RSum(_, _)
RSum(f, k) == IF k = 0 THEN Zero ELSE RAdd(RSum(f, k - 1), f[k - 1])

\* element (r, c) of a row-major matrix with cols columns
Entry(buf, cols, r, c) == buf[r * cols + c + 1]

\* blobs_[0] is a weight matrix of N_ x K_ and, with a bias term, blobs_[1]
\* is there with N_ elements
ParametersFit ==
    /\ Len(blobs_) >= 1
    /\ blobs_[1].height = N_
    /\ blobs_[1].width = K_
    /\ bias_term_ => Len(blobs_) >= 2 /\ Len(blobs_[2].data) = N_

\* sum over k of input[m][k] * weight[n][k]
InnerProduct(m, n) ==
    RSum([k \in 0..(K_ - 1) |->
            RMul(Entry(bottom.data, K_, m, k), Entry(blobs_[1].data, K_, n, k))], K_)

\* C1: after Forward_cpu on an M x K input, an N x K weight matrix and a
\* bias vector of length N, output entry (m, n) is the sum over k of
\* input[m][k] * weight[n][k], plus bias[n] exactly when bias_term is set,
\* whatever the top data held before the call, and the call returns 0.
C1_ForwardOutput ==
    (call.op = "Forward_cpu" /\ ParametersFit) =>
        /\ \A m \in 0..(M_ - 1), n \in 0..(N_ - 1) :
              Entry(top.data, N_, m, n) =
                  RAdd(InnerProduct(m, n),
                       IF bias_term_ THEN blobs_[2].data[n + 1] ELSE Zero)
        /\ Len(top.data) = M_ * N_
        /\ call.ret = Zero

\* C1 witness: Forward_cpu has run with a bias term on a 2 x 2 input over a
\* top buffer that held the non-zero output of an earlier, different call.
C1_Witness ==
    /\ call.op = "Forward_cpu"
    /\ ParametersFit
    /\ bias_term_
    /\ call.stale
    /\ M_ = 2 /\ K_ = 2 /\ N_ = 2
    /\ \E j \in 1..Len(top.data) : top.data[j] # Zero
    /\ \E j \in 1..Len(blobs_[2].data) : blobs_[2].data[j] # Zero

\* the blob has an element (r, c)
HasEntry(blob, r, c) == r < blob.height /\ c < blob.width

\* element (r, c) of the data or diff buffer buf of a blob
BlobEntry(blob, buf, r, c) == buf[r * blob.width + c + 1]

\* the gradients of the last Backward_cpu call are the products of its
\* arguments
BackwardGradients ==
        /\ Len(blobs_) >= 1
        /\ \A n \in 0..(N_ - 1), k \in 0..(K_ - 1) :
              /\ HasEntry(blobs_[1], n, k)
              /\ BlobEntry(blobs_[1], blobs_[1].diff, n, k) =
                    RSum([m \in 0..(M_ - 1) |->
                            RMul(Entry(top.diff, N_, m, n),
                                 Entry(bottom.data, K_, m, k))], M_)
        /\ bias_term_ =>
              /\ Len(blobs_) >= 2
              /\ \A n \in 0..(N_ - 1) :
                    /\ n < Len(blobs_[2].diff)
                    /\ blobs_[2].diff[n + 1] =
                          RSum([m \in 0..(M_ - 1) |-> Entry(top.diff, N_, m, n)], M_)
        /\ call.propagate_down =>
              \A m \in 0..(M_ - 1), k \in 0..(K_ - 1) :
                 Entry(bottom.diff, K_, m, k) =
                    RSum([n \in 0..(N_ - 1) |->
                            RMul(Entry(top.diff, N_, m, n),
                                 BlobEntry(blobs_[1], blobs_[1].data, n, k))], N_)

\* C2: after every Backward_cpu call (here: on a layer whose parameters
\* SetUp itself allocated), weight gradient entry (n, k) is the sum over m of
\* top_gradient[m][n] * input[m][k]; with a bias term, bias gradient entry n
\* is the sum over m of top_gradient[m][n]; with propagate_down, input
\* gradient entry (m, k) is the sum over n of top_gradient[m][n] *
\* weight[n][k]; whatever the gradient buffers held before.
C2_BackwardGradients ==
    (call.op = "Backward_cpu" /\ fills > 0) => BackwardGradients

\* C2 restricted to the states where the parameters fit the dimensions of
\* the last SetUp: there the gradients are the ones C2 states
C2_WhereParametersFit ==
    (call.op = "Backward_cpu" /\ ParametersFit) => BackwardGradients


\* the elements of a set of offsets, in increasing order
RECURSIVE Ascending(_)
Ascending(offsets) ==
    IF offsets = {} THEN << >>
    ELSE LET least == CHOOSE o \in offsets : \A p \in offsets : o <= p
         IN  <<least>> \o Ascending(offsets \ {least})

\* the norm of walked group i (from 1) of a weight buffer
GroupNorm(weight, i) ==
    LET offsets == Ascending(walked'[i])
    IN  VecNorm([j \in 1..Len(offsets) |-> weight[offsets[j] + 1]])

\* the elements of walked group i are the same in both buffers
GroupSame(before, after, i) == \A o \in walked'[i] : after[o + 1] = before[o + 1]

\* x lies within Dtype(1e-7) of the integer t
WithinEps(x, t) == RLeq(Rat(t * EpsDen - 1, EpsDen), x) /\ RLeq(x, Rat(t * EpsDen + 1, EpsDen))

\* what C3 states of one normalize_weights(mnorm) call
MaxNormHolds ==
    \A i \in 1..Len(walked') :
       /\ RLeq(GroupNorm(blobs_'[1].data, i), RAdd(Int2Rat(call'.mnorm), Eps))
       /\ RLeq(GroupNorm(blobs_[1].data, i), Int2Rat(call'.mnorm)) =>
             GroupSame(blobs_[1].data, blobs_'[1].data, i)

\* C3 as stated: for every weight matrix and every max_norm, after
\* normalize_weights(max_norm) every column the routine walks has a norm
\* <= max_norm + epsilon, and every column whose norm was <= max_norm before
\* the call has all its elements unchanged.
C3_MaxNormAnyBound ==
    [][call'.op = "normalize_weights_max" => MaxNormHolds]_vars

\* C3 amended: the same for every max_norm >= 0.
C3_MaxNormNonNegative ==
    [][(call'.op = "normalize_weights_max" /\ call'.mnorm >= 0) => MaxNormHolds]_vars

\* C3 witness: normalize_weights(max_norm) with max_norm > 0 has rescaled one
\* column (its elements are no longer integers) and left another, non-zero
\* column as it was.
C3_Witness ==
    /\ call.op = "normalize_weights_max"
    /\ call.mnorm > 0
    /\ \E i \in 1..Len(walked) : \E o \in walked[i] : blobs_[1].data[o + 1].d # 1
    /\ \E i \in 1..Len(walked) :
          /\ \A o \in walked[i] : blobs_[1].data[o + 1].d = 1
          /\ \E o \in walked[i] : blobs_[1].data[o + 1] # Zero

\* the norm lies in the closed interval [min_norm, max_norm]
InBand(nrm, min_norm, max_norm) ==
    RLeq(Int2Rat(min_norm), nrm) /\ RLeq(nrm, Int2Rat(max_norm))

\* C4 as stated: after normalize_weights(min_norm, max_norm, target_norm)
\* every column's norm lies in [min_norm, max_norm] or, for a column that was
\* outside the interval before the call (a zero column included), equals
\* target_norm within epsilon; every column whose norm was inside the
\* interval before the call has all its elements unchanged.
C4_BandOrTarget ==
    [][call'.op = "normalize_weights_band" =>
          \A i \in 1..Len(walked') :
             LET pre == GroupNorm(blobs_[1].data, i)
                 post == GroupNorm(blobs_'[1].data, i)
             IN  /\ \/ InBand(post, call'.min_norm, call'.max_norm)
                    \/ /\ ~InBand(pre, call'.min_norm, call'.max_norm)
                       /\ WithinEps(post, call'.target_norm)
                 /\ InBand(pre, call'.min_norm, call'.max_norm) =>
                       GroupSame(blobs_[1].data, blobs_'[1].data, i)]_vars

\* C4 amended, for target_norm >= 0: every column whose norm was inside
\* [min_norm, max_norm] before the call has all its elements unchanged; a
\* column whose norm nrm was outside ends with a norm that is at most
\* target_norm and that lies within epsilon of target_norm exactly when
\* target_norm <= nrm + epsilon; a column whose norm was zero stays zero.
C4_BandRescaled ==
    [][(call'.op = "normalize_weights_band" /\ call'.target_norm >= 0) =>
          \A i \in 1..Len(walked') :
             LET pre == GroupNorm(blobs_[1].data, i)
                 post == GroupNorm(blobs_'[1].data, i)
             IN  IF InBand(pre, call'.min_norm, call'.max_norm)
                 THEN GroupSame(blobs_[1].data, blobs_'[1].data, i)
                 ELSE /\ RLeq(post, Int2Rat(call'.target_norm))
                      /\ WithinEps(post, call'.target_norm) <=>
                            RLeq(Int2Rat(call'.target_norm), RAdd(pre, Eps))
                      /\ pre = Zero => post = Zero]_vars

\* C4 witness: the three-argument overload has met a zero column below
\* min_norm, which is still zero, and has rescaled another column.
C4_Witness ==
    /\ call.op = "normalize_weights_band"
    /\ call.min_norm > 0
    /\ call.target_norm > 0
    /\ \E i \in 1..Len(walked) : \A o \in walked[i] : blobs_[1].data[o + 1] = Zero
    /\ \E i \in 1..Len(walked) : \E o \in walked[i] : blobs_[1].data[o + 1].d # 1

\* C5: after any SetUp call, from any starting state of the layer, blobs_
\* holds exactly 1 blob when bias_term is false and exactly 2 when it is
\* true.
C5_StoreSize ==
    call.op = "SetUp" => Len(blobs_) = (IF bias_term_ THEN 2 ELSE 1)

\* C5 restricted to the layers that SetUp found with an empty blobs_: there
\* the size is the one C5 states
C5_WhereSetUpAllocated ==
    (call.op = "SetUp" /\ fills > 0) => Len(blobs_) = (IF bias_term_ THEN 2 ELSE 1)

\* C6: a SetUp call that finds blobs_ populated leaves the number of
\* parameter blobs, their identities, their shapes and their values as they
\* were and runs no filler, for any shape of the bottom blob.
C6_SetUpKeepsParameters ==
    [][(call'.op = "SetUp" /\ Len(blobs_) > 0) =>
          /\ blobs_' = blobs_
          /\ fills' = fills
          /\ next_id' = next_id]_vars

\* C6 witness: SetUp has run again on a layer whose parameters an earlier
\* SetUp allocated, with a bottom blob of another width, and has skipped the
\* initialization.
C6_Witness ==
    /\ call.op = "SetUp"
    /\ log = "Skipping parameter initialization"
    /\ fills > 0
    /\ blobs_[1].width # K_

\* C7: with the weight blob allocated by SetUp as N output units x K input
\* features, each normalize_weights overload walks exactly N groups, and
\* group n consists of exactly the K weights of output unit n (the weights
\* that Forward multiplies with the input to produce output n).
C7_WalksOutputUnits ==
    (call.op \in {"normalize_weights_max", "normalize_weights_band"} /\ fills > 0) =>
        /\ Len(walked) = blobs_[1].height
        /\ \A n \in 0..(blobs_[1].height - 1) :
              n < Len(walked) =>
                 walked[n + 1] =
                    {n * blobs_[1].width + k : k \in 0..(blobs_[1].width - 1)}

\* C8: after any sequence of SetUp calls on a layer with a bias term, the
\* bias multiplier has M_ elements, M_ being the batch size of the last
\* call, and every element is 1.
C8_BiasMultiplierOnes ==
    (call.op = "SetUp" /\ bias_term_) =>
        /\ Len(bias_multiplier_) = M_
        /\ \A i \in 1..Len(bias_multiplier_) : bias_multiplier_[i] = One

\* C8 witness: SetUp has run with a bias term, has skipped the parameter
\* initialization, and the batch size differs from the one it found.
C8_Witness ==
    /\ call.op = "SetUp"
    /\ bias_term_
    /\ log = "Skipping parameter initialization"
    /\ call.old_M # 0
    /\ call.old_M # M_

\* C9: Backward_cpu (here: on a layer whose parameters SetUp itself
\* allocated) leaves the weight values, the bias values, the input values,
\* the top gradient and the bias multiplier unchanged; without
\* propagate_down it leaves the input's gradient unchanged; without a bias
\* term it writes no bias gradient.
C9_BackwardWritesGradientsOnly ==
    [][(call'.op = "Backward_cpu" /\ fills > 0) =>
          /\ Len(blobs_') = Len(blobs_)
          /\ \A i \in 1..Len(blobs_) : blobs_'[i].data = blobs_[i].data
          /\ bottom'.data = SampleData(call'.bottom_seed, M_ * K_)
          /\ top'.diff = SampleData(call'.top_seed, M_ * N_)
          /\ bias_multiplier_' = bias_multiplier_
          /\ ~call'.propagate_down => bottom'.diff = bottom.diff
          /\ ~bias_term_ =>
                \A i \in 2..Len(blobs_) : blobs_'[i].diff = blobs_[i].diff]_vars

\* C9 restricted to the calls that find the parameters fitting the
\* dimensions of the last SetUp: there Backward_cpu writes gradients only
C9_WhereParametersFit ==
    [][(call'.op = "Backward_cpu" /\ ParametersFit) =>
          /\ \A i \in 1..Len(blobs_) : blobs_'[i].data = blobs_[i].data
          /\ bottom'.data = SampleData(call'.bottom_seed, M_ * K_)
          /\ top'.diff = SampleData(call'.top_seed, M_ * N_)
          /\ bias_multiplier_' = bias_multiplier_
          /\ ~call'.propagate_down => bottom'.diff = bottom.diff
          /\ ~bias_term_ =>
                \A i \in 2..Len(blobs_) : blobs_'[i].diff = blobs_[i].diff]_vars

\* C10: after any sequence of SetUp calls (here: on a layer that started
\* with an empty blobs_), blobs_[0] has the shape N_ x K_ of the layer's
\* current dimensions, and the calls that follow read and write only inside
\* the buffers.
C10_WeightShapeCurrent ==
    (call.op # "init" /\ fills > 0) =>
        /\ blobs_[1].height = N_
        /\ blobs_[1].width = K_
        /\ ~oob

====
